---------------------------- MODULE Spec2Model ----------------------------
(***************************************************************************)
(* Index bookkeeping of the hyperspherical-harmonics eigenfunction         *)
(* evaluators (type_a, type_b, type_bdash, type_c) and of the parameter    *)
(* inference helper get_n_end_and_include_negative_m_from_expansion.       *)
(*                                                                         *)
(* An array is a record [shape, data]: shape is the tuple of axis extents, *)
(* data maps every index tuple (0-based, as in the source) to its entry.   *)
(* The angle batch is a scalar (theta.ndim = 0), so the arrays hold only   *)
(* the trailing quantum-number axes.                                       *)
(***************************************************************************)
EXTENDS Integers, Sequences, FiniteSets, TLC

VARIABLES op, args, m, res, inferred

vars == <<op, args, m, res, inferred>>

(***************************************************************************)
(* Bounds of the model.                                                    *)
(***************************************************************************)
MaxNEnd == 5
ThetaSteps == 4
MaxS == 1
MaxNodes == 2
MaxSize == 6

NEnds == 0..MaxNEnd
Thetas == 0..(ThetaSteps - 1)
SValues == 0..MaxS
FillValues == {0, -1, 7}

(***************************************************************************)
(* Arrays.                                                                 *)
(***************************************************************************)
Max(S) == CHOOSE x \in S : \A y \in S : y <= x

Range(s) == {s[i] : i \in 1..Len(s)}

Idx(shape) ==
    CASE Len(shape) = 0 -> {<<>>}
      [] Len(shape) = 1 -> {<<i>> : i \in 0..(shape[1] - 1)}
      [] Len(shape) = 2 -> (0..(shape[1] - 1)) \X (0..(shape[2] - 1))
      [] Len(shape) = 3 ->
            (0..(shape[1] - 1)) \X (0..(shape[2] - 1)) \X (0..(shape[3] - 1))

\* a negative axis number counts from the last axis, as in the array API
Axis(shape, axis) == IF axis < 0 THEN Len(shape) + axis + 1 ELSE axis + 1

EmptyArray == [shape |-> <<0>>, data |-> [idx \in Idx(<<0>>) |-> 0]]

\* xp.arange(0, n): the axis [0, 1, ..., n-1]
arange(n) == [shape |-> <<n>>, data |-> [idx \in Idx(<<n>>) |-> idx[1]]]

\* xp.zeros(shape)
zeros(shape) == [shape |-> shape, data |-> [idx \in Idx(shape) |-> 0]]


\* negation of the mirrored half (asymmetric=True); the entries are real
neg(v) == 0 - v

\* complex conjugate of a real entry (to_symmetric is only applied to real arrays)
conj_real(v) == v

\* symmetric extension of one axis: [a_0, ..., a_(n-1)] becomes
\* [a_0, ..., a_(n-1), a'_(n-1), ..., a'_1], a' the (negated, conjugated) entry
to_symmetric(a, axis, asymmetric, conjugate) ==
    LET k == Axis(a.shape, axis)
        n == a.shape[k]
        ext == IF n = 0 THEN 0 ELSE 2 * n - 1
        shape == [a.shape EXCEPT ![k] = ext]
        mirrored(v) ==
            LET v1 == IF asymmetric THEN neg(v) ELSE v
            IN  IF conjugate THEN conj_real(v1) ELSE v1
    IN  [shape |-> shape,
         data |-> [idx \in Idx(shape) |->
                     IF idx[k] < n
                     THEN a.data[idx]
                     ELSE mirrored(a.data[[idx EXCEPT ![k] = 2 * n - 1 - idx[k]]])]]

\* diagonal shift with cut_padding=True: the row with index i along axis_row is
\* moved i steps towards higher indices along axis_shift, the entries shifted
\* past the end are dropped and the vacated entries hold fill_values
shift_nth_row_n_steps(a, axis_row, axis_shift, fill_values) ==
    LET kr == Axis(a.shape, axis_row)
        ks == Axis(a.shape, axis_shift)
    IN  [shape |-> a.shape,
         data |-> [idx \in Idx(a.shape) |->
                     IF idx[ks] >= idx[kr]
                     THEN a.data[[idx EXCEPT ![ks] = idx[ks] - idx[kr]]]
                     ELSE fill_values]]

(***************************************************************************)
(* Complex numbers of modulus 1/sqrt(2 pi).  The angle t stands for        *)
(* theta = 2 pi t / ThetaSteps; the entry j in 0..2*ThetaSteps-1 stands    *)
(* for exp(i pi j / ThetaSteps) / sqrt(2 pi).                              *)
(***************************************************************************)
Units == 2 * ThetaSteps

\* exp(1j * mm * theta) / sqrt(2 pi)
cexp(mm, theta) == (2 * mm * theta) % Units

\* product of a sign (+1 or -1) and a complex entry
cmul_sign(sign, z) == IF sign = -1 THEN (z + ThetaSteps) % Units ELSE z

\* complex conjugate
conj(z) == (0 - z) % Units

abs(x) == IF x < 0 THEN 0 - x ELSE x

\* (-1) ** k
pow_minus_one(k) == IF k % 2 = 0 THEN 1 ELSE -1

(***************************************************************************)
(* type_a                                                                  *)
(***************************************************************************)
\* variant: the order axis mirrored without the change of sign
type_a_m_unsigned(n_end, include_negative_m) ==
    IF include_negative_m
    THEN to_symmetric(arange(n_end), -1, FALSE, FALSE)
    ELSE arange(n_end)

\* the order axis m of type_a
type_a_m(n_end, include_negative_m) ==
    IF include_negative_m
    THEN to_symmetric(arange(n_end), -1, TRUE, FALSE)
    ELSE arange(n_end)

\* variant: the phase (-1)^m applied to the negative orders as well
type_a_phase_on_all_orders(theta, n_end, condon_shortley_phase, include_negative_m) ==
    LET mm == type_a_m(n_end, include_negative_m)
    IN  [shape |-> mm.shape,
         data |-> [idx \in Idx(mm.shape) |->
                     LET e == cexp(mm.data[idx], theta)
                     IN  IF condon_shortley_phase
                         THEN cmul_sign(pow_minus_one(abs(mm.data[idx])), e)
                         ELSE e]]

type_a(theta, n_end, condon_shortley_phase, include_negative_m) ==
    LET mm == type_a_m(n_end, include_negative_m)
    IN  [shape |-> mm.shape,
         data |-> [idx \in Idx(mm.shape) |->
                     LET e == cexp(mm.data[idx], theta)
                     IN  IF condon_shortley_phase
                         THEN cmul_sign(
                                pow_minus_one(
                                  (mm.data[idx] + abs(mm.data[idx])) \div 2), e)
                         ELSE e]]

(***************************************************************************)
(* get_n_end_and_include_negative_m_from_expansion                         *)
(* The tree c is given by s_ndim, its angular nodes being 1..s_ndim.  An   *)
(* expansion is [is_mapping, shapes]: the shapes of the arrays of the      *)
(* nodes for a mapping, the one shape of a concatenated array otherwise.   *)
(***************************************************************************)
Last(s) == s[Len(s)]

\* shape[-k:]
Suffix(s, k) == IF k >= Len(s) THEN s ELSE SubSeq(s, Len(s) - k + 1, Len(s))

candidate_sizes(s_ndim, expansion) ==
    IF expansion.is_mapping
    THEN [k \in 1..s_ndim |-> Last(expansion.shapes[k])]
    ELSE Suffix(expansion.shapes[1], s_ndim)

\* variant: the degree bound rounded as ceil((max + 1) / 2)
get_n_end_rounded_up(s_ndim, expansion) ==
    IF s_ndim = 0
    THEN <<0, FALSE>>
    ELSE LET sizes == candidate_sizes(s_ndim, expansion)
             n_end == (Max(Range(sizes)) + 2) \div 2
             include_negative_m == ~(\A i \in 1..Len(sizes) : sizes[i] = n_end)
         IN  <<n_end, include_negative_m>>

\* variant: the degree bound halved without the + 1
get_n_end_halved(s_ndim, expansion) ==
    IF s_ndim = 0
    THEN <<0, FALSE>>
    ELSE LET sizes == candidate_sizes(s_ndim, expansion)
             n_end == Max(Range(sizes)) \div 2
             include_negative_m == ~(\A i \in 1..Len(sizes) : sizes[i] = n_end)
         IN  <<n_end, include_negative_m>>

get_n_end_and_include_negative_m_from_expansion(s_ndim, expansion) ==
    IF s_ndim = 0
    THEN <<0, FALSE>>
    ELSE LET sizes == candidate_sizes(s_ndim, expansion)
             n_end == (Max(Range(sizes)) + 1) \div 2
             include_negative_m == ~(\A i \in 1..Len(sizes) : sizes[i] = n_end)
         IN  <<n_end, include_negative_m>>

(***************************************************************************)
(* Real entries of type_b, type_bdash and type_c.  The product of the      *)
(* normalisation constant, the powers of sin/cos and the Jacobi polynomial *)
(* at the surrogate index n is kept as a term, one integer per             *)
(* (evaluator, theta, s_alpha, s_beta, l_alpha, l_beta, n).                *)
(***************************************************************************)
Radix == MaxNEnd + ThetaSteps + MaxS + 1

term(kind, theta, s_alpha, s_beta, l_alpha, l_beta, n) ==
    7 + n + Radix * (l_beta + Radix * (l_alpha + Radix * (s_beta + Radix *
        (s_alpha + Radix * (theta + Radix * kind)))))

\* normalisation * sin(theta)^l_beta * jacobi(n_end, alpha, alpha, cos(theta))
\* as an array [l_beta, n]
surrogate_b(theta, n_end, s_beta) ==
    [shape |-> <<n_end, n_end>>,
     data |-> [idx \in Idx(<<n_end, n_end>>) |->
                 term(0, theta, 0, s_beta, 0, idx[1], idx[2])]]

\* normalisation * cos(theta)^l_alpha * jacobi(n_end, beta, beta, sin(theta))
\* as an array [l_alpha, n]
surrogate_bdash(theta, n_end, s_alpha) ==
    [shape |-> <<n_end, n_end>>,
     data |-> [idx \in Idx(<<n_end, n_end>>) |->
                 term(1, theta, s_alpha, 0, idx[1], 0, idx[2])]]

\* the product of type_c as an array [l_alpha, l_beta, n], n < (n_end + 1) // 2
surrogate_c(theta, n_end, s_alpha, s_beta) ==
    LET shape == <<n_end, n_end, (n_end + 1) \div 2>>
    IN  [shape |-> shape,
         data |-> [idx \in Idx(shape) |->
                     term(2, theta, s_alpha, s_beta, idx[1], idx[2], idx[3])]]

(***************************************************************************)
(* type_b, type_bdash                                                      *)
(***************************************************************************)
\* variant: the roles of the two axes of the shift exchanged
type_b_shift_rows(theta, n_end, s_beta, index_with_surrogate_quantum_number, is_beta_type_a_and_include_negative_m, fill_value) ==
    LET res0 == surrogate_b(theta, n_end, s_beta)
        res1 == IF ~index_with_surrogate_quantum_number
                THEN shift_nth_row_n_steps(res0, -1, -2, fill_value)
                ELSE res0
    IN  IF is_beta_type_a_and_include_negative_m
        THEN to_symmetric(res1, -2, FALSE, FALSE)
        ELSE res1

\* variant: the l_beta axis mirrored before the shift instead of after it
type_b_mirror_before_shift(theta, n_end, s_beta, index_with_surrogate_quantum_number, is_beta_type_a_and_include_negative_m, fill_value) ==
    LET res0 == surrogate_b(theta, n_end, s_beta)
        res1 == IF is_beta_type_a_and_include_negative_m
                THEN to_symmetric(res0, -2, FALSE, FALSE)
                ELSE res0
    IN  IF ~index_with_surrogate_quantum_number
        THEN shift_nth_row_n_steps(res1, -2, -1, fill_value)
        ELSE res1

type_b(theta, n_end, s_beta, index_with_surrogate_quantum_number, is_beta_type_a_and_include_negative_m, fill_value) ==
    LET res0 == surrogate_b(theta, n_end, s_beta)
        res1 == IF ~index_with_surrogate_quantum_number
                THEN shift_nth_row_n_steps(res0, -2, -1, fill_value)
                ELSE res0
    IN  IF is_beta_type_a_and_include_negative_m
        THEN to_symmetric(res1, -2, FALSE, FALSE)
        ELSE res1

type_bdash(theta, n_end, s_alpha, index_with_surrogate_quantum_number, is_alpha_type_a_and_include_negative_m, fill_value) ==
    LET res0 == surrogate_bdash(theta, n_end, s_alpha)
        res1 == IF ~index_with_surrogate_quantum_number
                THEN shift_nth_row_n_steps(res0, -2, -1, fill_value)
                ELSE res0
    IN  IF is_alpha_type_a_and_include_negative_m
        THEN to_symmetric(res1, -2, FALSE, FALSE)
        ELSE res1

(***************************************************************************)
(* type_c                                                                  *)
(***************************************************************************)
\* res_expaneded = xp.zeros(res.shape[:-1] + (n_end,)); res_expaneded[..., ::2] = res
interleave(a, n_end) ==
    LET shape == [a.shape EXCEPT ![Len(a.shape)] = n_end]
        z == zeros(shape)
        k == Len(shape)
    IN  [shape |-> shape,
         data |-> [idx \in Idx(shape) |->
                     IF idx[k] % 2 = 0
                     THEN a.data[[idx EXCEPT ![k] = idx[k] \div 2]]
                     ELSE z.data[idx]]]

\* variant: the surrogate axis shifted without being interleaved
type_c_keep_surrogate_axis(theta, n_end, s_alpha, s_beta, index_with_surrogate_quantum_number, is_alpha_type_a_and_include_negative_m, is_beta_type_a_and_include_negative_m, fill_value) ==
    LET res0 == surrogate_c(theta, n_end, s_alpha, s_beta)
        res1 == IF ~index_with_surrogate_quantum_number
                THEN shift_nth_row_n_steps(
                       shift_nth_row_n_steps(res0, -3, -1, fill_value),
                       -2, -1, fill_value)
                ELSE res0
        res2 == IF is_alpha_type_a_and_include_negative_m
                THEN to_symmetric(res1, -3, FALSE, FALSE)
                ELSE res1
    IN  IF is_beta_type_a_and_include_negative_m
        THEN to_symmetric(res2, -2, FALSE, FALSE)
        ELSE res2

\* variant: the shift by l_beta (step 3) left out
type_c_single_shift(theta, n_end, s_alpha, s_beta, index_with_surrogate_quantum_number, is_alpha_type_a_and_include_negative_m, is_beta_type_a_and_include_negative_m, fill_value) ==
    LET res0 == surrogate_c(theta, n_end, s_alpha, s_beta)
        res1 == IF ~index_with_surrogate_quantum_number
                THEN shift_nth_row_n_steps(
                       interleave(res0, n_end), -3, -1, fill_value)
                ELSE res0
        res2 == IF is_alpha_type_a_and_include_negative_m
                THEN to_symmetric(res1, -3, FALSE, FALSE)
                ELSE res1
    IN  IF is_beta_type_a_and_include_negative_m
        THEN to_symmetric(res2, -2, FALSE, FALSE)
        ELSE res2

type_c(theta, n_end, s_alpha, s_beta, index_with_surrogate_quantum_number, is_alpha_type_a_and_include_negative_m, is_beta_type_a_and_include_negative_m, fill_value) ==
    LET res0 == surrogate_c(theta, n_end, s_alpha, s_beta)
        res1 == IF ~index_with_surrogate_quantum_number
                THEN shift_nth_row_n_steps(
                       shift_nth_row_n_steps(
                         interleave(res0, n_end), -3, -1, fill_value),
                       -2, -1, fill_value)
                ELSE res0
        res2 == IF is_alpha_type_a_and_include_negative_m
                THEN to_symmetric(res1, -3, FALSE, FALSE)
                ELSE res1
    IN  IF is_beta_type_a_and_include_negative_m
        THEN to_symmetric(res2, -2, FALSE, FALSE)
        ELSE res2

(***************************************************************************)
(* State: the last call (op, args) and what it returned.                   *)
(***************************************************************************)
NoExpansion == [is_mapping |-> FALSE, shapes |-> <<>>]

NoInference == <<-1, FALSE>>

NoArgs ==
    [theta |-> 0, n_end |-> 0,
     condon_shortley_phase |-> FALSE, include_negative_m |-> FALSE,
     s_alpha |-> 0, s_beta |-> 0,
     index_with_surrogate_quantum_number |-> FALSE,
     is_alpha_type_a_and_include_negative_m |-> FALSE,
     is_beta_type_a_and_include_negative_m |-> FALSE,
     fill_value |-> 0,
     s_ndim |-> 0, expansion |-> NoExpansion]

Init ==
    /\ op = "none"
    /\ args = NoArgs
    /\ m = EmptyArray
    /\ res = EmptyArray
    /\ inferred = NoInference

CallTypeA ==
    /\ op = "none"
    /\ \E theta \in Thetas, n_end \in NEnds,
       condon_shortley_phase \in BOOLEAN, include_negative_m \in BOOLEAN :
        /\ op' = "type_a"
        /\ args' = [NoArgs EXCEPT
                      !.theta = theta, !.n_end = n_end,
                      !.condon_shortley_phase = condon_shortley_phase,
                      !.include_negative_m = include_negative_m]
        /\ m' = type_a_m(n_end, include_negative_m)
        /\ res' = type_a(theta, n_end, condon_shortley_phase, include_negative_m)
        /\ inferred' = NoInference

CallTypeB ==
    /\ op = "none"
    /\ \E theta \in Thetas, n_end \in NEnds, s_beta \in SValues,
       surrogate \in BOOLEAN, negative \in BOOLEAN, fill_value \in FillValues :
        /\ op' = "type_b"
        /\ args' = [NoArgs EXCEPT
                      !.theta = theta, !.n_end = n_end, !.s_beta = s_beta,
                      !.index_with_surrogate_quantum_number = surrogate,
                      !.is_beta_type_a_and_include_negative_m = negative,
                      !.fill_value = fill_value]
        /\ m' = EmptyArray
        /\ res' = type_b(theta, n_end, s_beta, surrogate, negative, fill_value)
        /\ inferred' = NoInference

CallTypeBdash ==
    /\ op = "none"
    /\ \E theta \in Thetas, n_end \in NEnds, s_alpha \in SValues,
       surrogate \in BOOLEAN, negative \in BOOLEAN, fill_value \in FillValues :
        /\ op' = "type_bdash"
        /\ args' = [NoArgs EXCEPT
                      !.theta = theta, !.n_end = n_end, !.s_alpha = s_alpha,
                      !.index_with_surrogate_quantum_number = surrogate,
                      !.is_alpha_type_a_and_include_negative_m = negative,
                      !.fill_value = fill_value]
        /\ m' = EmptyArray
        /\ res' = type_bdash(theta, n_end, s_alpha, surrogate, negative, fill_value)
        /\ inferred' = NoInference

CallTypeC ==
    /\ op = "none"
    /\ \E theta \in Thetas, n_end \in NEnds,
       s_alpha \in SValues, s_beta \in SValues, surrogate \in BOOLEAN,
       negative_alpha \in BOOLEAN, negative_beta \in BOOLEAN,
       fill_value \in FillValues :
        /\ op' = "type_c"
        /\ args' = [NoArgs EXCEPT
                      !.theta = theta, !.n_end = n_end,
                      !.s_alpha = s_alpha, !.s_beta = s_beta,
                      !.index_with_surrogate_quantum_number = surrogate,
                      !.is_alpha_type_a_and_include_negative_m = negative_alpha,
                      !.is_beta_type_a_and_include_negative_m = negative_beta,
                      !.fill_value = fill_value]
        /\ m' = EmptyArray
        /\ res' = type_c(theta, n_end, s_alpha, s_beta, surrogate,
                         negative_alpha, negative_beta, fill_value)
        /\ inferred' = NoInference

\* the shapes a coefficient array of one node can have: the last axis of
\* extent 0..MaxSize, with or without a leading batch axis
NodeShapes ==
    {<<k>> : k \in 0..MaxSize} \cup {<<2, k>> : k \in 0..MaxSize}

\* the shapes of a concatenated array: s_ndim trailing axes, with or without a
\* leading batch axis
ArrayShapes(s_ndim) ==
    LET trailing == [1..s_ndim -> 0..MaxSize]
    IN  trailing \cup {<<2>> \o t : t \in trailing}

Expansions(s_ndim) ==
    {[is_mapping |-> TRUE, shapes |-> sh] : sh \in [1..s_ndim -> NodeShapes]}
      \cup {[is_mapping |-> FALSE, shapes |-> <<sh>>] : sh \in ArrayShapes(s_ndim)}

CallInference ==
    /\ op = "none"
    /\ \E s_ndim \in 0..MaxNodes :
      \E expansion \in Expansions(s_ndim) :
        /\ op' = "get_n_end_and_include_negative_m_from_expansion"
        /\ args' = [NoArgs EXCEPT !.s_ndim = s_ndim, !.expansion = expansion]
        /\ m' = EmptyArray
        /\ res' = EmptyArray
        /\ inferred' =
             get_n_end_and_include_negative_m_from_expansion(s_ndim, expansion)

\* the caller drops the returned value; every call starts afresh
Return ==
    /\ op # "none"
    /\ op' = "none"
    /\ args' = NoArgs
    /\ m' = EmptyArray
    /\ res' = EmptyArray
    /\ inferred' = NoInference

Next ==
    \/ CallTypeA
    \/ CallTypeB
    \/ CallTypeBdash
    \/ CallTypeC
    \/ CallInference
    \/ Return

Spec == Init /\ [][Next]_vars

(***************************************************************************)
(* Properties of get_n_end_and_include_negative_m_from_expansion           *)
(***************************************************************************)
Inferring == op = "get_n_end_and_include_negative_m_from_expansion"

Sizes == candidate_sizes(args.s_ndim, args.expansion)

MaxCandidate == Max(Range(Sizes))

\* the sizes of a coefficient mapping built with (n_end, include_negative_m):
\* every extent n_end, or at least one extent 2 n_end - 1 and the others n_end
BuiltWith(sizes, n_end, include_negative_m) ==
    IF include_negative_m
    THEN /\ \E i \in 1..Len(sizes) : sizes[i] = 2 * n_end - 1
         /\ \A i \in 1..Len(sizes) : sizes[i] \in {n_end, 2 * n_end - 1}
    ELSE \A i \in 1..Len(sizes) : sizes[i] = n_end

\* C1 as stated: a mapping built with (n_end, include_negative_m) gives back
\* exactly (n_end, include_negative_m).
C1_RoundTripExact ==
    (Inferring /\ args.expansion.is_mapping /\ args.s_ndim >= 1) =>
        \A n_end \in 0..MaxSize, include_negative_m \in BOOLEAN :
            BuiltWith(Sizes, n_end, include_negative_m) =>
                inferred = <<n_end, include_negative_m>>

\* C2 as stated: n_end = ceil((max(candidate sizes) + 1) / 2).
C2_CeilOfMaxPlusOne ==
    (Inferring /\ args.s_ndim >= 1) => inferred[1] = (MaxCandidate + 2) \div 2

\* C2 amended: n_end = ceil(max(candidate sizes) / 2), the least integer whose
\* double is at least the largest candidate size (= floor((max + 1) / 2)).
C2_CeilOfHalfMax ==
    (Inferring /\ args.s_ndim >= 1) =>
        /\ 2 * inferred[1] >= MaxCandidate
        /\ 2 * (inferred[1] - 1) < MaxCandidate

\* a concatenated array whose largest trailing extent is even and not 0
C2_Witness ==
    /\ Inferring /\ args.s_ndim >= 1 /\ ~args.expansion.is_mapping
    /\ MaxCandidate >= 2 /\ MaxCandidate % 2 = 0
    /\ 2 * inferred[1] = MaxCandidate

\* C10: with an angular node, include_negative_m is false exactly when all
\* candidate sizes are equal and 0 or 1, and true as soon as a size is >= 2,
\* also when all sizes are equal; with no angular node the result is (0, false)
\* whatever the expansion.
C10_IncludeNegativeM ==
    Inferring =>
        IF args.s_ndim = 0
        THEN inferred = <<0, FALSE>>
        ELSE /\ (inferred[2] = FALSE) <=>
                    /\ \A i, j \in 1..Len(Sizes) : Sizes[i] = Sizes[j]
                    /\ Sizes[1] \in {0, 1}
             /\ (\E i \in 1..Len(Sizes) : Sizes[i] >= 2) => inferred[2] = TRUE

\* several nodes, all of the same size >= 2, reported as mirrored
C10_Witness ==
    /\ Inferring /\ args.s_ndim >= 2
    /\ \A i, j \in 1..Len(Sizes) : Sizes[i] = Sizes[j]
    /\ Sizes[1] >= 2
    /\ inferred[2] = TRUE

(***************************************************************************)
(* Properties of type_a                                                    *)
(***************************************************************************)
\* the order at position i of the signed axis [0, ..., n-1, -(n-1), ..., -1]
SignedOrder(i, n_end) == IF i < n_end THEN i ELSE i - (2 * n_end - 1)

\* C6: without negative orders the axis has length n_end and position i holds
\* the order i; with negative orders and n_end >= 1 it has length 2 n_end - 1
\* and holds [0, ..., n_end-1, -(n_end-1), ..., -1]; with n_end = 0 it is empty.
C6_OrderAxis ==
    op = "type_a" =>
        LET n_end == args.n_end
            len == IF args.include_negative_m /\ n_end >= 1
                   THEN 2 * n_end - 1
                   ELSE n_end
        IN  /\ res.shape = <<len>>
            /\ m.shape = <<len>>
            /\ n_end = 0 => Idx(res.shape) = {}
            /\ \A i \in 0..(len - 1) :
                /\ m.data[<<i>>] =
                     IF args.include_negative_m THEN SignedOrder(i, n_end) ELSE i
                /\ ~args.condon_shortley_phase =>
                     res.data[<<i>>] =
                        cexp(IF args.include_negative_m
                             THEN SignedOrder(i, n_end) ELSE i, args.theta)

\* the example of the specification: n_end = 3 gives the orders [0, 1, 2, -2, -1]
C6_Witness ==
    /\ op = "type_a" /\ args.n_end = 3 /\ args.include_negative_m
    /\ res.shape = <<5>>
    /\ [i \in 1..5 |-> m.data[<<i - 1>>]] = <<0, 1, 2, -2, -1>>

\* C7: with the Condon-Shortley phase the entry of order m carries the sign
\* (-1)^m for m >= 0 and +1 for m < 0, so that the entry of order -m is (-1)^m
\* times the conjugate of the entry of order +m; without the phase there is no
\* sign, and the entry of order -m is the conjugate of the entry of order +m.
C7_CondonShortleyPhase ==
    op = "type_a" =>
        /\ \A idx \in Idx(res.shape) :
             LET order == m.data[idx]
                 sign == IF args.condon_shortley_phase /\ order >= 0
                         THEN pow_minus_one(order)
                         ELSE 1
             IN  res.data[idx] = cmul_sign(sign, cexp(order, args.theta))
        /\ args.include_negative_m =>
             \A k \in 1..(args.n_end - 1) :
                LET plus == res.data[<<k>>]
                    minus == res.data[<<2 * args.n_end - 1 - k>>]
                IN  minus = IF args.condon_shortley_phase
                            THEN cmul_sign(pow_minus_one(k), conj(plus))
                            ELSE conj(plus)

\* the phase is on, and the entry of order -1 is not the conjugate of order +1
C7_Witness ==
    /\ op = "type_a" /\ args.condon_shortley_phase /\ args.include_negative_m
    /\ args.n_end >= 3 /\ args.theta = 1
    /\ res.data[<<2 * args.n_end - 2>>] # conj(res.data[<<1>>])
    /\ res.data[<<2 * args.n_end - 2>>] = cmul_sign(-1, conj(res.data[<<1>>]))

(***************************************************************************)
(* Properties of type_b, type_bdash and type_c                             *)
(***************************************************************************)
TrueIndexed == ~args.index_with_surrogate_quantum_number

\* what the same call returns when indexed with the surrogate quantum number
SurrogateB ==
    type_b(args.theta, args.n_end, args.s_beta, TRUE,
           args.is_beta_type_a_and_include_negative_m, args.fill_value)

SurrogateBdash ==
    type_bdash(args.theta, args.n_end, args.s_alpha, TRUE,
               args.is_alpha_type_a_and_include_negative_m, args.fill_value)

SurrogateC ==
    type_c(args.theta, args.n_end, args.s_alpha, args.s_beta, TRUE,
           args.is_alpha_type_a_and_include_negative_m,
           args.is_beta_type_a_and_include_negative_m, args.fill_value)

Degrees == 0..(args.n_end - 1)

\* C3: in type_b and type_bdash the true-index entry at (l_child, l) is the
\* surrogate entry at (l_child, n = l - l_child) when l >= l_child and the fill
\* value when l < l_child; every row stays at its index.
C3_ShiftInvertibility ==
    /\ (op = "type_b" /\ TrueIndexed) =>
          \A l_beta \in Degrees, l \in Degrees :
              res.data[<<l_beta, l>>] =
                 IF l >= l_beta
                 THEN SurrogateB.data[<<l_beta, l - l_beta>>]
                 ELSE args.fill_value
    /\ (op = "type_bdash" /\ TrueIndexed) =>
          \A l_alpha \in Degrees, l \in Degrees :
              res.data[<<l_alpha, l>>] =
                 IF l >= l_alpha
                 THEN SurrogateBdash.data[<<l_alpha, l - l_alpha>>]
                 ELSE args.fill_value

\* row 2 of a true-index type_b result: filled below the diagonal, the surrogate
\* entry n = 0 on it
C3_Witness ==
    /\ op = "type_b" /\ TrueIndexed /\ args.n_end >= 3 /\ args.fill_value = -1
    /\ res.data[<<2, 1>>] = -1
    /\ res.data[<<2, 2>>] = SurrogateB.data[<<2, 0>>]
    /\ res.data[<<2, 2>>] # -1

\* l - l_alpha - l_beta is even, not negative, and its half is a surrogate index
ValidC(l_alpha, l_beta, l) ==
    /\ l - l_alpha - l_beta >= 0
    /\ (l - l_alpha - l_beta) % 2 = 0
    /\ (l - l_alpha - l_beta) \div 2 < (args.n_end + 1) \div 2

\* C4 as stated: in true-index mode every entry of type_c at an invalid
\* (l_alpha, l_beta, l) holds exactly the fill value of the caller.
C4_InvalidHoldsFill ==
    (op = "type_c" /\ TrueIndexed) =>
        \A l_alpha \in Degrees, l_beta \in Degrees, l \in Degrees :
            ~ValidC(l_alpha, l_beta, l) =>
                res.data[<<l_alpha, l_beta, l>>] = args.fill_value

\* C5 as stated: with the negative-m flags off, type_b and type_bdash return the
\* trailing axes (n_end, n_end) and type_c (n_end, n_end, n_end), in both modes.
C5_UniformShape ==
    /\ (op \in {"type_b", "type_bdash"}
          /\ ~args.is_alpha_type_a_and_include_negative_m
          /\ ~args.is_beta_type_a_and_include_negative_m) =>
            res.shape = <<args.n_end, args.n_end>>
    /\ (op = "type_c"
          /\ ~args.is_alpha_type_a_and_include_negative_m
          /\ ~args.is_beta_type_a_and_include_negative_m) =>
            res.shape = <<args.n_end, args.n_end, args.n_end>>

\* C5 amended: with the negative-m flags off, type_b and type_bdash return the
\* trailing axes (n_end, n_end) in both modes; type_c returns
\* (n_end, n_end, n_end) in true-index mode and (n_end, n_end, ceil(n_end / 2))
\* in surrogate mode; every index of the shape holds an entry.
C5_ShapeAmended ==
    /\ (op \in {"type_b", "type_bdash"}
          /\ ~args.is_alpha_type_a_and_include_negative_m
          /\ ~args.is_beta_type_a_and_include_negative_m) =>
            /\ res.shape = <<args.n_end, args.n_end>>
            /\ DOMAIN res.data = Idx(res.shape)
    /\ (op = "type_c"
          /\ ~args.is_alpha_type_a_and_include_negative_m
          /\ ~args.is_beta_type_a_and_include_negative_m) =>
            /\ res.shape =
                 <<args.n_end, args.n_end,
                   IF TrueIndexed THEN args.n_end ELSE (args.n_end + 1) \div 2>>
            /\ DOMAIN res.data = Idx(res.shape)

\* a surrogate-mode type_c result: the surrogate axis is shorter than n_end
C5_Witness ==
    /\ op = "type_c" /\ ~TrueIndexed /\ args.n_end = 4
    /\ ~args.is_alpha_type_a_and_include_negative_m
    /\ ~args.is_beta_type_a_and_include_negative_m
    /\ res.shape = <<4, 4, 2>>
    /\ <<3, 3, 1>> \in DOMAIN res.data

\* C8: in true-index mode the entry of type_c at a valid (l_alpha, l_beta, l) is
\* the surrogate entry at (l_alpha, l_beta, n = (l - l_alpha - l_beta) / 2), and
\* every even, non-negative l - l_alpha - l_beta with l < n_end is valid.
C8_TrueIndexValues ==
    (op = "type_c" /\ TrueIndexed) =>
        \A l_alpha \in Degrees, l_beta \in Degrees, l \in Degrees :
            /\ ValidC(l_alpha, l_beta, l) =>
                 res.data[<<l_alpha, l_beta, l>>] =
                    SurrogateC.data[<<l_alpha, l_beta, (l - l_alpha - l_beta) \div 2>>]
            /\ (l - l_alpha - l_beta >= 0 /\ (l - l_alpha - l_beta) % 2 = 0) =>
                 /\ ValidC(l_alpha, l_beta, l)
                 /\ <<l_alpha, l_beta, (l - l_alpha - l_beta) \div 2>>
                       \in DOMAIN SurrogateC.data

\* l = 2 * 1 + 1 + 0: the surrogate entry n = 1 of row (1, 0) sits at l = 3
C8_Witness ==
    /\ op = "type_c" /\ TrueIndexed /\ args.n_end >= 4
    /\ res.data[<<1, 0, 3>>] = SurrogateC.data[<<1, 0, 1>>]
    /\ res.data[<<1, 0, 3>>] # args.fill_value
    /\ res.data[<<1, 0, 3>>] # SurrogateC.data[<<1, 0, 0>>]

\* the extent of a child axis: [0, ..., n_end-1, -(n_end-1), ..., -1] when the
\* child is a type a node with negative m, [0, ..., n_end-1] otherwise
ChildExtent(flag) == IF flag /\ args.n_end >= 1 THEN 2 * args.n_end - 1 ELSE args.n_end

\* the child index +k whose values position i of an extended axis holds
Fold(i) == IF i < args.n_end THEN i ELSE 2 * args.n_end - 1 - i

\* what the same call returns with the negative-m flags off
PlainB ==
    type_b(args.theta, args.n_end, args.s_beta,
           args.index_with_surrogate_quantum_number, FALSE, args.fill_value)

PlainBdash ==
    type_bdash(args.theta, args.n_end, args.s_alpha,
               args.index_with_surrogate_quantum_number, FALSE, args.fill_value)

PlainC ==
    type_c(args.theta, args.n_end, args.s_alpha, args.s_beta,
           args.index_with_surrogate_quantum_number, FALSE, FALSE, args.fill_value)

\* C9: the negative-m extension comes after the reindexing and copies values:
\* a flagged child axis has the 2 n_end - 1 positions
\* [0, ..., n_end-1, -(n_end-1), ..., -1] (n_end >= 1), the slice of child index
\* -k equals the slice of +k, shifted by k like it, and the positions 0..n_end-1
\* hold what the call returns without the flag; in type_c each flag extends its
\* own axis only (l_alpha axis -3, l_beta axis -2).
C9_NegativeMExtension ==
    /\ op = "type_b" =>
          LET flag == args.is_beta_type_a_and_include_negative_m
          IN  /\ res.shape = <<ChildExtent(flag), PlainB.shape[2]>>
              /\ \A idx \in Idx(res.shape) :
                    res.data[idx] = PlainB.data[<<Fold(idx[1]), idx[2]>>]
              /\ (flag /\ TrueIndexed) =>
                    \A k \in 1..(args.n_end - 1), l \in Degrees :
                        res.data[<<2 * args.n_end - 1 - k, l>>] =
                           IF l >= k
                           THEN SurrogateB.data[<<k, l - k>>]
                           ELSE args.fill_value
    /\ op = "type_bdash" =>
          LET flag == args.is_alpha_type_a_and_include_negative_m
          IN  /\ res.shape = <<ChildExtent(flag), PlainBdash.shape[2]>>
              /\ \A idx \in Idx(res.shape) :
                    res.data[idx] = PlainBdash.data[<<Fold(idx[1]), idx[2]>>]
              /\ (flag /\ TrueIndexed) =>
                    \A k \in 1..(args.n_end - 1), l \in Degrees :
                        res.data[<<2 * args.n_end - 1 - k, l>>] =
                           IF l >= k
                           THEN SurrogateBdash.data[<<k, l - k>>]
                           ELSE args.fill_value
    /\ op = "type_c" =>
          /\ res.shape =
               <<ChildExtent(args.is_alpha_type_a_and_include_negative_m),
                 ChildExtent(args.is_beta_type_a_and_include_negative_m),
                 PlainC.shape[3]>>
          /\ \A idx \in Idx(res.shape) :
                res.data[idx] = PlainC.data[<<Fold(idx[1]), Fold(idx[2]), idx[3]>>]

\* type_c with only the alpha child flagged: the l_alpha axis is extended, the
\* other two are not, and the slice of l_alpha = -1 repeats that of l_alpha = +1
C9_Witness ==
    /\ op = "type_c" /\ TrueIndexed /\ args.n_end >= 3
    /\ args.is_alpha_type_a_and_include_negative_m
    /\ ~args.is_beta_type_a_and_include_negative_m
    /\ res.shape = <<2 * args.n_end - 1, args.n_end, args.n_end>>
    /\ res.data[<<2 * args.n_end - 2, 0, 1>>] = res.data[<<1, 0, 1>>]
    /\ res.data[<<1, 0, 1>>] # args.fill_value
    /\ res.data[<<1, 0, 1>>] # res.data[<<2, 0, 1>>]

=============================================================================
